---- MODULE Spec2Model ----
(***************************************************************************)
(* State-machine model of src/script.js: the in-browser visual PDF signer. *)
(* Every event handler is one action; every await inside a handler splits  *)
(* it into steps, and the steps of different invocations interleave.       *)
(***************************************************************************)
EXTENDS Integers, Sequences, FiniteSets, Bags, TLC

\* ------------------------------------------------------------- bounds
\* number of asynchronous invocations that may be suspended at the same time
MaxTasks == 2
\* page count of the larger of the two readable documents
MaxPages == 2

\* ------------------------------------------------------------- values
None == "none"
NoPage == 0
NoPoint == [x |-> -1, y |-> -1]
NoRect == [x |-> -1, y |-> -1, w |-> -1, h |-> -1]
NoPdfRect == [x |-> <<0, 0>>, y |-> <<0, 0>>, width |-> <<0, 0>>, height |-> <<0, 0>>]
NoCanvas == [doc |-> None, page |-> NoPage]
NoIndicator == [page |-> NoPage, total |-> 0]
NoDownload == [doc |-> None, page |-> NoPage, img |-> None, rect |-> NoPdfRect, name |-> None]

\* the files the user can pick in the document input: two readable documents and
\* one whose bytes PDF.js and pdf-lib cannot decode
PdfFiles == {"a.pdf", "b.pdf", "bad.pdf"}
ValidPdf(f) == f \in {"a.pdf", "b.pdf"}
NumPages(f) == IF f = "a.pdf" THEN MaxPages ELSE 1
\* page size in points (every page of a document has the same size)
PageWidth(f) == IF f = "a.pdf" THEN 10 ELSE 20
PageHeight(f) == IF f = "a.pdf" THEN 20 ELSE 30

\* the files the user can pick in the signature input
SigFiles == {"sig.PNG", "sig.jpg", "scan.jpeg", "anim.gif", "bad.png", "id.p12", "note.txt"}
\* the suffix of file.name as the user's file system spells it
FileSuffix(f) ==
  CASE f = "sig.PNG" -> "PNG"
    [] f = "sig.jpg" -> "jpg"
    [] f = "scan.jpeg" -> "jpeg"
    [] f = "anim.gif" -> "gif"
    [] f = "bad.png" -> "png"
    [] f = "id.p12" -> "p12"
    [] OTHER -> "txt"
\* what the bytes of the file really are
FileContent(f) ==
  CASE f = "sig.PNG" -> "png"
    [] f = "sig.jpg" -> "jpeg"
    [] f = "scan.jpeg" -> "png"
    [] f = "anim.gif" -> "gif"
    [] f = "id.p12" -> "pkcs12"
    [] OTHER -> "garbage"

\* String.prototype.toLowerCase on a suffix
toLowerCase(s) == IF s = "PNG" THEN "png" ELSE s

\* the positions a mouse event can report, in canvas pixels
Points == {[x |-> 0, y |-> 0], [x |-> 3, y |-> 8], [x |-> 8, y |-> 8]}

\* the passwords the user can type before inspecting
Passwords == {"right", "wrong"}

\* ------------------------------------------------------------- status texts
StReady == "Ready"
StLoadingPdf == "Loading PDF..."
StPdfLoaded == "PDF loaded"
StSigLoaded == "Signature image loaded"
StSigDecodeFailed == "Failed to load signature image"
StP12Loaded == ".p12/.pfx loaded"
StUnsupported == "Unsupported signature file type"
StNeedP12 == "Load a .p12/.pfx file first"
StParsed == "Parsed .p12/.pfx"
StParseFailed == "Failed to parse .p12/.pfx"
StPlacingOn == "Placement mode enabled"
StPlacingOff == "Placement mode disabled"
StCanceled == "Selection canceled (too small)"
StSelectionSet == "Selection set"
StNoPdf == "No PDF loaded"
StNoSelection == "No selection made"
StNoSigFile == "No signature file loaded"
StNoImage == "A .p12 was loaded but no signature image was provided"
StApplying == "Applying signature"
StApplied == "Signed PDF generated and download started"
StApplyFailed == "Failed to apply signature"

VARIABLES
  pdfDoc, currentPageNum, totalPages, originalPdfBytes,
  canvas, canvasWidth, pageIndicator, status,
  placing, isDragging, dragStart, dragRect, selectedPageForSig,
  signatureImage, signatureFileRaw, signatureIsImage, p12ParsedInfo,
  pdfInputFile, sigInputFile,
  tasks, download,
  xfIn, xfOut

docVars == <<pdfDoc, currentPageNum, totalPages, originalPdfBytes>>
viewVars == <<canvas, canvasWidth, pageIndicator>>
selVars == <<placing, isDragging, dragStart, dragRect, selectedPageForSig>>
sigVars == <<signatureImage, signatureFileRaw, signatureIsImage, p12ParsedInfo>>
inputVars == <<pdfInputFile, sigInputFile>>
xfVars == <<xfIn, xfOut>>
vars == <<docVars, viewVars, selVars, sigVars, inputVars, status, tasks, download, xfVars>>

\* ------------------------------------------------------------- numbers
\* JavaScript numbers are modelled as exact fractions <<numerator, denominator>>
\* in lowest terms with a positive denominator.
RECURSIVE Gcd(_, _)
Gcd(a, b) == IF b = 0 THEN a ELSE Gcd(b, a % b)
Abs(n) == IF n < 0 THEN -n ELSE n
Frac(n, d) ==
  LET g == Gcd(Abs(n), Abs(d))
      sgn == IF d < 0 THEN -1 ELSE 1
  IN <<(sgn * n) \div g, (sgn * d) \div g>>
FInt(n) == <<n, 1>>
FMul(a, b) == Frac(a[1] * b[1], a[2] * b[2])
FDiv(a, b) == Frac(a[1] * b[2], a[2] * b[1])
FSub(a, b) == Frac(a[1] * b[2] - b[1] * a[2], a[2] * b[2])

\* ------------------------------------------------------------- tasks
\* One suspended invocation of an async function: which handler it belongs to,
\* the await it is suspended at, and the locals it carries across the await.
BlankTask ==
  [kind |-> "-", pc |-> "-", file |-> None, page |-> NoPage, img |-> None,
   rect |-> NoPdfRect]
\* the suspended invocations, a bag: two invocations may be at the same point
\* with the same locals
InFlight == BagToSet(tasks)
CanSpawn == BagCardinality(tasks) < MaxTasks
Spawn(t) == tasks' = tasks (+) SetToBag({t})
Finish(i) == tasks' = tasks (-) SetToBag({i})
Goto(i, t) == tasks' = (tasks (-) SetToBag({i})) (+) SetToBag({t})
\* no invocation of the given handler is suspended
NoneInFlight(kind) == \A t \in InFlight : t.kind # kind
\* a page.render() of another invocation is drawing on pdfCanvas
RenderInFlight == \E j \in InFlight : j.pc = "render"

\* ------------------------------------------------------------- helpers
setStatus(msg) == status' = msg

resetSelection ==
  /\ dragStart' = NoPoint
  /\ dragRect' = NoRect
  /\ selectedPageForSig' = NoPage

resetSignatureState ==
  /\ signatureImage' = None
  /\ signatureFileRaw' = None
  /\ signatureIsImage' = FALSE
  /\ p12ParsedInfo' = None

\* canvasToRect with signed extents: width and height from start to end
canvasToRect_signed(start, end) ==
  [x |-> IF start.x < end.x THEN start.x ELSE end.x,
   y |-> IF start.y < end.y THEN start.y ELSE end.y,
   w |-> end.x - start.x,
   h |-> end.y - start.y]

canvasToRect(start, end) ==
  [x |-> IF start.x < end.x THEN start.x ELSE end.x,
   y |-> IF start.y < end.y THEN start.y ELSE end.y,
   w |-> Abs(start.x - end.x),
   h |-> Abs(start.y - end.y)]

\* canvasRectToPdfRect without the flip of the vertical axis
canvasRectToPdfRect_noFlip(canvasRect, pdfPageWidth, pdfPageHeight) ==
  LET pxToPt == FDiv(FInt(pdfPageWidth), FInt(canvasWidth))
  IN [x |-> FMul(FInt(canvasRect.x), pxToPt),
      y |-> FMul(FInt(canvasRect.y), pxToPt),
      width |-> FMul(FInt(canvasRect.w), pxToPt),
      height |-> FMul(FInt(canvasRect.h), pxToPt)]

\* canvasRectToPdfRect placing the top edge, not the bottom edge, at y
canvasRectToPdfRect_topEdge(canvasRect, pdfPageWidth, pdfPageHeight) ==
  LET pxToPt == FDiv(FInt(pdfPageWidth), FInt(canvasWidth))
  IN [x |-> FMul(FInt(canvasRect.x), pxToPt),
      y |-> FSub(FInt(pdfPageHeight), FMul(FInt(canvasRect.y), pxToPt)),
      width |-> FMul(FInt(canvasRect.w), pxToPt),
      height |-> FMul(FInt(canvasRect.h), pxToPt)]

canvasRectToPdfRect(canvasRect, pdfPageWidth, pdfPageHeight) ==
  LET pxToPt == FDiv(FInt(pdfPageWidth), FInt(canvasWidth))
      x == FMul(FInt(canvasRect.x), pxToPt)
      width == FMul(FInt(canvasRect.w), pxToPt)
      yTop == FInt(canvasRect.y)
      height == FMul(FInt(canvasRect.h), pxToPt)
      y == FSub(FSub(FInt(pdfPageHeight), FMul(yTop, pxToPt)), height)
  IN [x |-> x, y |-> y, width |-> width, height |-> height]

\* nothing is handed to the browser for download by this step
NoOutput == download' = NoDownload

\* ------------------------------------------------------------- renderPage
\* renderPage(pageNum) up to its first await: pdfDoc.getPage(pageNum) is called on
\* doc, the document held in pdfDoc at the call (non-null at every call site).
RenderTask(kind, doc, pageNum) ==
  [BlankTask EXCEPT !.kind = kind, !.pc = "getPage", !.file = doc, !.page = pageNum]

\* getPage resolved: both canvases are resized (which clears them) and
\* page.render() is started.  PDF.js may refuse a canvas that another render
\* is still drawing on; the returned promise then rejects and the invocation
\* ends with an unhandled rejection.
GetPageDone(i) ==
  /\ i.pc = "getPage"
  /\ IF i.page \in 1..NumPages(i.file)
       THEN /\ canvasWidth' = PageWidth(i.file)
            /\ canvas' = NoCanvas
            /\ \/ Goto(i, [i EXCEPT !.pc = "render"])
               \/ RenderInFlight /\ Finish(i)
       ELSE \* getPage rejects a page number outside the document
            /\ Finish(i)
            /\ UNCHANGED <<canvasWidth, canvas>>
  /\ NoOutput
  /\ UNCHANGED <<docVars, pageIndicator, selVars, sigVars, inputVars, status, xfVars>>

\* page.render() resolved: the page is on the canvas, the indicator is written,
\* and the caller's continuation runs in the same turn.
RenderDone(i) ==
  /\ i.pc = "render"
  /\ canvas' = [doc |-> i.file, page |-> i.page]
  /\ pageIndicator' = [page |-> i.page, total |-> totalPages]
  /\ Finish(i)
  /\ IF i.kind = "load"
       THEN setStatus(StPdfLoaded) /\ resetSelection
       ELSE IF i.kind = "nav"
         THEN resetSelection /\ UNCHANGED status
         ELSE UNCHANGED <<dragStart, dragRect, selectedPageForSig, status>>
  /\ NoOutput
  /\ UNCHANGED <<docVars, canvasWidth, placing, isDragging, sigVars, inputVars, xfVars>>

\* ------------------------------------------------------------- document load
\* pdfFileInput 'change' with file f, up to the first await in loadPdfFromFile
LoadPdfStart(f) ==
  /\ CanSpawn
  /\ pdfInputFile' = f
  /\ resetSelection
  /\ setStatus(StLoadingPdf)
  /\ Spawn([BlankTask EXCEPT !.kind = "load", !.pc = "read", !.file = f])
  /\ NoOutput
  /\ UNCHANGED <<docVars, viewVars, placing, isDragging, sigVars, sigInputFile, xfVars>>

\* file.arrayBuffer() resolved: the bytes are stored and getDocument is called
LoadPdfRead(i) ==
  /\ i.kind = "load" /\ i.pc = "read"
  /\ originalPdfBytes' = i.file
  /\ Goto(i, [i EXCEPT !.pc = "decode"])
  /\ NoOutput
  /\ UNCHANGED <<pdfDoc, currentPageNum, totalPages, viewVars, selVars, sigVars,
                 inputVars, status, xfVars>>

\* getDocument settled: on success the document, its page count and page 1
\* become current and renderPage(1) is called; on failure the rejection
\* leaves loadPdfFromFile and the handler (nothing catches it)
LoadPdfDecoded(i) ==
  /\ i.kind = "load" /\ i.pc = "decode"
  /\ IF ValidPdf(i.file)
       THEN /\ pdfDoc' = i.file
            /\ totalPages' = NumPages(i.file)
            /\ currentPageNum' = 1
            /\ Goto(i, RenderTask("load", i.file, 1))
       ELSE /\ Finish(i)
            /\ UNCHANGED <<pdfDoc, totalPages, currentPageNum>>
  /\ NoOutput
  /\ UNCHANGED <<originalPdfBytes, viewVars, selVars, sigVars, inputVars, status, xfVars>>

\* ------------------------------------------------------------- navigation
Max(a, b) == IF a > b THEN a ELSE b
Min(a, b) == IF a < b THEN a ELSE b

\* prevPageBtn 'click', up to the await inside renderPage
PrevPage ==
  /\ pdfDoc # None
  /\ CanSpawn
  /\ currentPageNum' = Max(1, currentPageNum - 1)
  /\ Spawn(RenderTask("nav", pdfDoc, currentPageNum'))
  /\ NoOutput
  /\ UNCHANGED <<pdfDoc, totalPages, originalPdfBytes, viewVars, selVars, sigVars,
                 inputVars, status, xfVars>>

\* NextPage without the clamp to totalPages
NextPage_unclamped ==
  /\ pdfDoc # None
  /\ CanSpawn
  /\ currentPageNum' = currentPageNum + 1
  /\ Spawn(RenderTask("nav", pdfDoc, currentPageNum'))
  /\ NoOutput
  /\ UNCHANGED <<pdfDoc, totalPages, originalPdfBytes, viewVars, selVars, sigVars,
                 inputVars, status, xfVars>>

\* nextPageBtn 'click', up to the await inside renderPage
NextPage ==
  /\ pdfDoc # None
  /\ CanSpawn
  /\ currentPageNum' = Min(totalPages, currentPageNum + 1)
  /\ Spawn(RenderTask("nav", pdfDoc, currentPageNum'))
  /\ NoOutput
  /\ UNCHANGED <<pdfDoc, totalPages, originalPdfBytes, viewVars, selVars, sigVars,
                 inputVars, status, xfVars>>

\* window 'resize', up to the await inside renderPage; drawOverlay, which runs
\* after the render, changes no variable of the model
Resize ==
  /\ pdfDoc # None
  /\ CanSpawn
  /\ Spawn(RenderTask("resize", pdfDoc, currentPageNum))
  /\ NoOutput
  /\ UNCHANGED <<docVars, viewVars, selVars, sigVars, inputVars, status, xfVars>>

\* ------------------------------------------------------------- signature asset
IsImageName(f) == toLowerCase(FileSuffix(f)) \in {"png", "jpg", "jpeg", "gif"}
IsP12Name(f) == toLowerCase(FileSuffix(f)) \in {"p12", "pfx"}
\* whether the browser's Image decodes the bytes (it sniffs the content)
BrowserDecodes(f) == FileContent(f) \in {"png", "jpeg", "gif"}

\* sigFileInput 'change' with file f, up to the await in handleSignatureFile
LoadSigStart(f) ==
  /\ CanSpawn
  /\ sigInputFile' = f
  /\ resetSignatureState
  /\ Spawn([BlankTask EXCEPT !.kind = "sig", !.pc = "read", !.file = f])
  /\ NoOutput
  /\ UNCHANGED <<docVars, viewVars, selVars, pdfInputFile, status, xfVars>>

\* file.arrayBuffer() resolved: the bytes are stored and the file is classified
\* by the suffix of its lower-cased name
LoadSigRead(i) ==
  /\ i.kind = "sig" /\ i.pc = "read"
  /\ signatureFileRaw' = i.file
  /\ IF IsImageName(i.file)
       THEN /\ Goto(i, [i EXCEPT !.pc = "decode"])
            /\ UNCHANGED <<signatureImage, signatureIsImage, status>>
       ELSE IF IsP12Name(i.file)
         THEN /\ signatureIsImage' = FALSE
              /\ signatureImage' = None
              /\ setStatus(StP12Loaded)
              /\ Finish(i)
         ELSE /\ setStatus(StUnsupported)
              /\ Finish(i)
              /\ UNCHANGED <<signatureImage, signatureIsImage>>
  /\ NoOutput
  /\ UNCHANGED <<docVars, viewVars, selVars, p12ParsedInfo, inputVars, xfVars>>

\* img.onload or img.onerror fires
LoadSigDecoded(i) ==
  /\ i.kind = "sig" /\ i.pc = "decode"
  /\ IF BrowserDecodes(i.file)
       THEN /\ signatureImage' = i.file
            /\ signatureIsImage' = TRUE
            /\ setStatus(StSigLoaded)
       ELSE /\ setStatus(StSigDecodeFailed)
            /\ UNCHANGED <<signatureImage, signatureIsImage>>
  /\ Finish(i)
  /\ NoOutput
  /\ UNCHANGED <<docVars, viewVars, selVars, signatureFileRaw, p12ParsedInfo,
                 inputVars, xfVars>>

\* inspectBtn 'click' with the password typed in sigPasswordInput
InspectP12(pass) ==
  /\ IF signatureFileRaw = None
       THEN setStatus(StNeedP12) /\ UNCHANGED p12ParsedInfo
       ELSE IF FileContent(signatureFileRaw) = "pkcs12" /\ pass = "right"
         THEN p12ParsedInfo' = signatureFileRaw /\ setStatus(StParsed)
         ELSE setStatus(StParseFailed) /\ UNCHANGED p12ParsedInfo
  /\ NoOutput
  /\ UNCHANGED <<docVars, viewVars, selVars, signatureImage, signatureFileRaw,
                 signatureIsImage, inputVars, tasks, xfVars>>

\* ------------------------------------------------------------- selection
enablePlacementMode(enable) ==
  /\ placing' = enable
  /\ isDragging' = IF enable THEN isDragging ELSE FALSE

\* togglePlaceBtn 'click'
TogglePlace ==
  /\ enablePlacementMode(~placing)
  /\ setStatus(IF placing' THEN StPlacingOn ELSE StPlacingOff)
  /\ NoOutput
  /\ UNCHANGED <<docVars, viewVars, dragStart, dragRect, selectedPageForSig, sigVars,
                 inputVars, tasks, xfVars>>

\* overlayCanvas 'mousedown' at p
MouseDown(p) ==
  /\ placing
  /\ isDragging' = TRUE
  /\ dragStart' = p
  /\ dragRect' = [x |-> p.x, y |-> p.y, w |-> 0, h |-> 0]
  /\ selectedPageForSig' = currentPageNum
  /\ NoOutput
  /\ UNCHANGED <<docVars, viewVars, placing, sigVars, inputVars, status, tasks, xfVars>>

\* overlayCanvas 'mousemove' at p.  With dragStart null the handler throws on
\* start.x before it assigns anything, so that case is no step.
MouseMove(p) ==
  /\ placing
  /\ isDragging
  /\ dragStart # NoPoint
  /\ dragRect' = canvasToRect(dragStart, p)
  /\ NoOutput
  /\ UNCHANGED <<docVars, viewVars, placing, isDragging, dragStart, selectedPageForSig,
                 sigVars, inputVars, status, tasks, xfVars>>

\* the least width and height, in canvas pixels, of a selection that is kept
MinSelectionPx == 4

\* 'mouseup' over overlayCanvas: its own handler, then the document's (which finds
\* isDragging already false).  With dragRect null the else branch throws on
\* dragRect.x after the status and the page have been written.
MouseUpOverlay ==
  /\ placing
  /\ isDragging
  /\ isDragging' = FALSE
  /\ IF dragRect # NoRect /\ (dragRect.w < MinSelectionPx \/ dragRect.h < MinSelectionPx)
       THEN /\ dragRect' = NoRect
            /\ setStatus(StCanceled)
            /\ UNCHANGED selectedPageForSig
       ELSE /\ setStatus(StSelectionSet)
            /\ selectedPageForSig' = currentPageNum
            /\ UNCHANGED dragRect
  /\ NoOutput
  /\ UNCHANGED <<docVars, viewVars, placing, dragStart, sigVars, inputVars, tasks, xfVars>>

\* 'mouseup' anywhere else in the document
MouseUpDocument ==
  /\ isDragging
  /\ isDragging' = FALSE
  /\ NoOutput
  /\ UNCHANGED <<docVars, viewVars, placing, dragStart, dragRect, selectedPageForSig,
                 sigVars, inputVars, status, tasks, xfVars>>

\* ------------------------------------------------------------- apply
\* the catch block of applySignatureAndDownload
ApplyCatch(i) ==
  /\ setStatus(StApplyFailed)
  /\ Finish(i)
  /\ NoOutput

\* ApplyStart without the check that a selection is held
ApplyStart_noSelectionCheck ==
  /\ IF originalPdfBytes = None
       THEN setStatus(StNoPdf) /\ UNCHANGED tasks
       ELSE IF signatureFileRaw = None
         THEN setStatus(StNoSigFile) /\ UNCHANGED tasks
         ELSE IF ~signatureIsImage
           THEN setStatus(StNoImage) /\ UNCHANGED tasks
           ELSE /\ CanSpawn
                /\ setStatus(StApplying)
                /\ Spawn([BlankTask EXCEPT !.kind = "apply", !.pc = "load",
                                          !.file = originalPdfBytes])
  /\ NoOutput
  /\ UNCHANGED <<docVars, viewVars, selVars, sigVars, inputVars, xfVars>>

\* applySignatureAndDownload invoked: the four precondition checks in their
\* order, then the status and the call of PDFDocument.load on the bytes held
ApplyStart ==
  /\ IF originalPdfBytes = None
       THEN setStatus(StNoPdf) /\ UNCHANGED tasks
       ELSE IF dragRect = NoRect \/ selectedPageForSig = NoPage
         THEN setStatus(StNoSelection) /\ UNCHANGED tasks
         ELSE IF signatureFileRaw = None
           THEN setStatus(StNoSigFile) /\ UNCHANGED tasks
           ELSE IF ~signatureIsImage
             THEN setStatus(StNoImage) /\ UNCHANGED tasks
             ELSE /\ CanSpawn
                  /\ setStatus(StApplying)
                  /\ Spawn([BlankTask EXCEPT !.kind = "apply", !.pc = "load",
                                            !.file = originalPdfBytes])
  /\ NoOutput
  /\ UNCHANGED <<docVars, viewVars, selVars, sigVars, inputVars, xfVars>>

\* PDFDocument.load settled.  On success the page is picked with the selection
\* page held now, the image bytes held now are taken, and the first embedding
\* is started: PNG when the name in sigFileInput matches /\.(png)$/i, else JPEG.
ApplyLoaded(i) ==
  /\ i.kind = "apply" /\ i.pc = "load"
  /\ IF ValidPdf(i.file) /\ selectedPageForSig \in 1..NumPages(i.file)
       THEN /\ Goto(i, [i EXCEPT
                 !.pc = IF sigInputFile # None /\ toLowerCase(FileSuffix(sigInputFile)) = "png"
                          THEN "embedPng" ELSE "embedJpg",
                 !.page = selectedPageForSig,
                 !.img = signatureFileRaw])
            /\ NoOutput
            /\ UNCHANGED status
       ELSE \* load rejects, or pages[pageIndex] is undefined and getSize throws
            ApplyCatch(i)
  /\ UNCHANGED <<docVars, viewVars, selVars, sigVars, inputVars, xfVars>>

\* after a successful embedding, in the same turn: the rectangle held now is
\* converted with the canvas width held now, image and caption are drawn and
\* save() is called
ApplyEmbedded(i) ==
  IF dragRect = NoRect
    THEN \* canvasRectToPdfRect throws on canvasRect.x
         ApplyCatch(i)
    ELSE /\ Goto(i, [i EXCEPT
              !.pc = "save",
              !.rect = canvasRectToPdfRect(dragRect, PageWidth(i.file),
                                           PageHeight(i.file))])
         /\ NoOutput
         /\ UNCHANGED status

\* embedJpg settled: on failure its catch handler calls embedPng
ApplyEmbedJpg(i) ==
  /\ i.kind = "apply" /\ i.pc = "embedJpg"
  /\ IF FileContent(i.img) = "jpeg"
       THEN ApplyEmbedded(i)
       ELSE /\ Goto(i, [i EXCEPT !.pc = "embedPng"])
            /\ NoOutput
            /\ UNCHANGED status
  /\ UNCHANGED <<docVars, viewVars, selVars, sigVars, inputVars, xfVars>>

\* embedPng settled
ApplyEmbedPng(i) ==
  /\ i.kind = "apply" /\ i.pc = "embedPng"
  /\ IF FileContent(i.img) = "png"
       THEN ApplyEmbedded(i)
       ELSE ApplyCatch(i)
  /\ UNCHANGED <<docVars, viewVars, selVars, sigVars, inputVars, xfVars>>

\* ApplySaved that also clears the selection once the download has started
ApplySaved_clearsSelection(i) ==
  /\ i.kind = "apply" /\ i.pc = "save"
  /\ download' = [doc |-> i.file, page |-> i.page, img |-> i.img,
                  rect |-> i.rect, name |-> pdfInputFile]
  /\ setStatus(StApplied)
  /\ Finish(i)
  /\ resetSelection
  /\ UNCHANGED <<docVars, viewVars, placing, isDragging, sigVars, inputVars, xfVars>>

\* save() resolved: the new bytes are offered for download under the name of
\* the file in pdfFileInput
ApplySaved(i) ==
  /\ i.kind = "apply" /\ i.pc = "save"
  /\ download' = [doc |-> i.file, page |-> i.page, img |-> i.img,
                  rect |-> i.rect, name |-> pdfInputFile]
  /\ setStatus(StApplied)
  /\ Finish(i)
  /\ UNCHANGED <<docVars, viewVars, selVars, sigVars, inputVars, xfVars>>

\* ------------------------------------------------------------- specification
\* width of a canvas element before anything has been rendered on it
DefaultCanvasWidth == 300
NoXf == [rect |-> NoRect, pdfPageWidth |-> 0, pdfPageHeight |-> 0]

InitSession ==
  /\ pdfDoc = None
  /\ currentPageNum = 1
  /\ totalPages = 0
  /\ originalPdfBytes = None
  /\ canvas = NoCanvas
  /\ pageIndicator = NoIndicator
  /\ status = StReady
  /\ placing = FALSE
  /\ isDragging = FALSE
  /\ dragStart = NoPoint
  /\ dragRect = NoRect
  /\ selectedPageForSig = NoPage
  /\ signatureImage = None
  /\ signatureFileRaw = None
  /\ signatureIsImage = FALSE
  /\ p12ParsedInfo = None
  /\ pdfInputFile = None
  /\ sigInputFile = None
  /\ tasks = EmptyBag
  /\ download = NoDownload

Init ==
  /\ InitSession
  /\ canvasWidth = DefaultCanvasWidth
  /\ xfIn = NoXf
  /\ xfOut = NoPdfRect

Next ==
  \/ \E f \in PdfFiles : LoadPdfStart(f)
  \/ \E i \in InFlight : LoadPdfRead(i)
  \/ \E i \in InFlight : LoadPdfDecoded(i)
  \/ \E i \in InFlight : GetPageDone(i)
  \/ \E i \in InFlight : RenderDone(i)
  \/ PrevPage
  \/ NextPage
  \/ Resize
  \/ \E f \in SigFiles : LoadSigStart(f)
  \/ \E i \in InFlight : LoadSigRead(i)
  \/ \E i \in InFlight : LoadSigDecoded(i)
  \/ \E pass \in Passwords : InspectP12(pass)
  \/ TogglePlace
  \/ \E p \in Points : MouseDown(p)
  \/ \E p \in Points : MouseMove(p)
  \/ MouseUpOverlay
  \/ MouseUpDocument
  \/ ApplyStart
  \/ \E i \in InFlight : ApplyLoaded(i)
  \/ \E i \in InFlight : ApplyEmbedJpg(i)
  \/ \E i \in InFlight : ApplyEmbedPng(i)
  \/ \E i \in InFlight : ApplySaved(i)

Spec == Init /\ [][Next]_vars

\* ------------------------------------------------------------- slices
\* Each specification below runs a part of the session: the handlers of one
\* group of controls, with every completion they can cause.  A behaviour of a
\* slice is a behaviour of Spec in which the user leaves the other controls
\* alone.

\* the document controls: file input, page buttons, window resize
NextDoc ==
  \/ \E f \in PdfFiles : LoadPdfStart(f)
  \/ \E i \in InFlight : LoadPdfRead(i)
  \/ \E i \in InFlight : LoadPdfDecoded(i)
  \/ \E i \in InFlight : GetPageDone(i)
  \/ \E i \in InFlight : RenderDone(i)
  \/ PrevPage
  \/ NextPage
  \/ Resize
SpecDoc == Init /\ [][NextDoc]_vars

\* the signature controls: file input and inspect button
NextAsset ==
  \/ \E f \in SigFiles : LoadSigStart(f)
  \/ \E i \in InFlight : LoadSigRead(i)
  \/ \E i \in InFlight : LoadSigDecoded(i)
  \/ \E pass \in Passwords : InspectP12(pass)
SpecAsset == Init /\ [][NextAsset]_vars

\* the placement controls and the mouse, with apply
NextSel ==
  \/ TogglePlace
  \/ \E p \in Points : MouseDown(p)
  \/ \E p \in Points : MouseMove(p)
  \/ MouseUpOverlay
  \/ MouseUpDocument
  \/ ApplyStart
SpecSel == Init /\ [][NextSel]_vars

\* the document controls (without resize) together with the placement controls
NextPageSel ==
  \/ \E f \in PdfFiles : LoadPdfStart(f)
  \/ \E i \in InFlight : LoadPdfRead(i)
  \/ \E i \in InFlight : LoadPdfDecoded(i)
  \/ \E i \in InFlight : GetPageDone(i)
  \/ \E i \in InFlight : RenderDone(i)
  \/ PrevPage
  \/ NextPage
  \/ TogglePlace
  \/ \E p \in Points : MouseDown(p)
  \/ \E p \in Points : MouseMove(p)
  \/ MouseUpOverlay
  \/ MouseUpDocument
SpecPageSel == Init /\ [][NextPageSel]_vars

\* a session in which the document is picked once, the signature input offers
\* an image, a format pdf-lib cannot embed, and a certificate store, and every
\* drag starts at one corner and moves to the opposite one
ApplySigFiles == {"sig.PNG", "anim.gif", "id.p12"}
ApplyDragFrom == {[x |-> 0, y |-> 0]}
ApplyDragTo == {[x |-> 8, y |-> 8]}
NextApply ==
  \/ \E f \in PdfFiles : pdfInputFile = None /\ LoadPdfStart(f)
  \/ \E i \in InFlight : LoadPdfRead(i)
  \/ \E i \in InFlight : LoadPdfDecoded(i)
  \/ \E i \in InFlight : GetPageDone(i)
  \/ \E i \in InFlight : RenderDone(i)
  \/ \E f \in ApplySigFiles : LoadSigStart(f)
  \/ \E i \in InFlight : LoadSigRead(i)
  \/ \E i \in InFlight : LoadSigDecoded(i)
  \/ TogglePlace
  \/ \E p \in ApplyDragFrom : MouseDown(p)
  \/ \E p \in ApplyDragTo : MouseMove(p)
  \/ MouseUpOverlay
  \/ ApplyStart
  \/ \E i \in InFlight : ApplyLoaded(i)
  \/ \E i \in InFlight : ApplyEmbedJpg(i)
  \/ \E i \in InFlight : ApplyEmbedPng(i)
  \/ \E i \in InFlight : ApplySaved(i)
SpecApply == Init /\ [][NextApply]_vars

\* a session in which the user goes from one readable document to another:
\* both can be picked, the page can be advanced, one PNG signature is offered
\* (so that the JPEG embedding is never attempted), and every drag is the one
\* of the session above
SwitchPdfFiles == {"a.pdf", "b.pdf"}
SwitchSigFiles == {"sig.PNG"}
NextSwitch ==
  \/ \E f \in SwitchPdfFiles : LoadPdfStart(f)
  \/ \E i \in InFlight : LoadPdfRead(i)
  \/ \E i \in InFlight : LoadPdfDecoded(i)
  \/ \E i \in InFlight : GetPageDone(i)
  \/ \E i \in InFlight : RenderDone(i)
  \/ NextPage
  \/ \E f \in SwitchSigFiles : sigInputFile = None /\ LoadSigStart(f)
  \/ \E i \in InFlight : LoadSigRead(i)
  \/ \E i \in InFlight : LoadSigDecoded(i)
  \/ TogglePlace
  \/ \E p \in ApplyDragFrom : MouseDown(p)
  \/ \E p \in ApplyDragTo : MouseMove(p)
  \/ MouseUpOverlay
  \/ ApplyStart
  \/ \E i \in InFlight : ApplyLoaded(i)
  \/ \E i \in InFlight : ApplyEmbedPng(i)
  \/ \E i \in InFlight : ApplySaved(i)
SpecSwitch == Init /\ [][NextSwitch]_vars

\* a session in which one document is picked once and the page buttons and the
\* window are used only after its load has ended
NextNav ==
  \/ \E f \in PdfFiles : pdfInputFile = None /\ LoadPdfStart(f)
  \/ \E i \in InFlight : LoadPdfRead(i)
  \/ \E i \in InFlight : LoadPdfDecoded(i)
  \/ \E i \in InFlight : GetPageDone(i)
  \/ \E i \in InFlight : RenderDone(i)
  \/ NoneInFlight("load") /\ PrevPage
  \/ NoneInFlight("load") /\ NextPage
  \/ NoneInFlight("load") /\ Resize
SpecNav == Init /\ [][NextNav]_vars

\* ------------------------------------------------------------- the transform alone
\* canvasRectToPdfRect applied once to an input drawn at the start: a canvas
\* rectangle, a page size in points, and the canvas width it reads
XfRects ==
  {[x |-> 100, y |-> 100, w |-> 200, h |-> 50],
   [x |-> 0, y |-> 0, w |-> 0, h |-> 0],
   [x |-> 3, y |-> 8, w |-> 5, h |-> 0],
   [x |-> 0, y |-> 0, w |-> 8, h |-> 8],
   [x |-> 10, y |-> 20, w |-> 30, h |-> 40]}
XfPageSizes == {<<612, 792>>, <<1224, 1584>>, <<10, 20>>}
XfWidths == {612, 306, 10, 4}
XfInputs ==
  {[rect |-> r, pdfPageWidth |-> sz[1], pdfPageHeight |-> sz[2]] :
     r \in XfRects, sz \in XfPageSizes}

XformInit ==
  /\ InitSession
  /\ canvasWidth \in XfWidths
  /\ xfIn \in XfInputs
  /\ xfOut = NoPdfRect

XformApply ==
  /\ xfIn # NoXf
  /\ xfOut = NoPdfRect
  /\ xfOut' = canvasRectToPdfRect(xfIn.rect, xfIn.pdfPageWidth, xfIn.pdfPageHeight)
  /\ UNCHANGED <<docVars, viewVars, selVars, sigVars, inputVars, status, tasks,
                 download, xfIn>>

XformSpec == XformInit /\ [][XformApply]_vars

\* ------------------------------------------------------------- properties
\* the transform has been applied to the drawn input
XfDone == xfOut # NoPdfRect
\* a fraction equals the quotient n / d of two integers
Equals(q, n, d) == q[2] > 0 /\ q[1] * d = n * q[2]

\* C5: canvasRectToPdfRect returns x' = x*s, width' = w*s, height' = h*s and
\* y' = pdfPageHeight - y*s - height' with s = pdfPageWidth / pdfCanvas.width;
\* a 612x792 page on a 612 px canvas maps {100,100,200,50} to {100,642,200,50}.
C5_TransformFormula ==
  XfDone =>
    LET r == xfIn.rect
        pw == xfIn.pdfPageWidth
        ph == xfIn.pdfPageHeight
        cw == canvasWidth
    IN /\ Equals(xfOut.x, r.x * pw, cw)
       /\ Equals(xfOut.width, r.w * pw, cw)
       /\ Equals(xfOut.height, r.h * pw, cw)
       /\ Equals(xfOut.y, ph * cw - r.y * pw - r.h * pw, cw)
       /\ (pw = 612 /\ ph = 792 /\ cw = 612 /\ r = [x |-> 100, y |-> 100, w |-> 200, h |-> 50]
            => xfOut = [x |-> <<100, 1>>, y |-> <<642, 1>>,
                        width |-> <<200, 1>>, height |-> <<50, 1>>])

C5_Witness ==
  /\ XfDone
  /\ xfIn = [rect |-> [x |-> 100, y |-> 100, w |-> 200, h |-> 50],
             pdfPageWidth |-> 612, pdfPageHeight |-> 792]
  /\ canvasWidth = 612

\* the inverse mapping of the claim: from a document rectangle back to canvas pixels
InverseRect(d, pdfPageWidth, pdfPageHeight, width) ==
  LET s == FDiv(FInt(pdfPageWidth), FInt(width))
  IN [x |-> FDiv(d.x, s),
      y |-> FDiv(FSub(FSub(FInt(pdfPageHeight), d.y), d.height), s),
      w |-> FDiv(d.width, s),
      h |-> FDiv(d.height, s)]
\* the scale factor is a whole number, so that every product and quotient of
\* the round trip is exact in double arithmetic too
IntegerScale == xfIn.pdfPageWidth % canvasWidth = 0

\* C6: canvasRectToPdfRect followed by the inverse mapping gives back the canvas
\* rectangle, exactly, for integer inputs with an integer scale factor.
C6_RoundTrip ==
  XfDone /\ IntegerScale =>
    InverseRect(xfOut, xfIn.pdfPageWidth, xfIn.pdfPageHeight, canvasWidth)
      = [x |-> FInt(xfIn.rect.x), y |-> FInt(xfIn.rect.y),
         w |-> FInt(xfIn.rect.w), h |-> FInt(xfIn.rect.h)]

C6_Witness ==
  /\ XfDone
  /\ IntegerScale
  /\ xfIn.pdfPageWidth # canvasWidth
  /\ xfIn.rect.h > 0
  /\ xfIn.rect.y > 0

\* the check of applySignatureAndDownload on the selection passes
SelectionHeld == dragRect # NoRect /\ selectedPageForSig # NoPage

\* C1: after overlapping document loads have all finished, the session holds
\* and shows the document picked last: pdfDoc, totalPages and the canvas are its.
C1_NewestDocumentWins ==
  tasks = EmptyBag /\ ValidPdf(pdfInputFile) =>
    /\ pdfDoc = pdfInputFile
    /\ totalPages = NumPages(pdfInputFile)
    /\ canvas.doc = pdfInputFile

\* a drag has ended and left a selection of at least the least size
SelectionCommitted ==
  /\ ~isDragging
  /\ SelectionHeld
  /\ dragRect.w >= MinSelectionPx
  /\ dragRect.h >= MinSelectionPx

\* C2: a click on prevPage or nextPage that changes currentPageNum while a
\* selection is committed leaves no selection for a following apply to find.
C2_PageSwitchInvalidates ==
  [][(PrevPage \/ NextPage) /\ currentPageNum' # currentPageNum /\ SelectionCommitted
       => ~SelectionHeld']_vars

\* C3: once a drag has ended, by whatever way, a rectangle narrower or lower
\* than 4 px is not kept.
C3_SmallDragDiscarded ==
  ~isDragging /\ dragRect # NoRect =>
    dragRect.w >= MinSelectionPx /\ dragRect.h >= MinSelectionPx

\* the certificate store picked last has been loaded, and every signature load
\* has completed
CertificateLoadedLast ==
  /\ sigInputFile # None
  /\ IsP12Name(sigInputFile)
  /\ NoneInFlight("sig")

\* C4: with a certificate store loaded last, and a document and a selection
\* held, apply ends with the NoImageAsset status and attempts no embedding.
C4_CertificateOnlyRefused ==
  [][ApplyStart /\ CertificateLoadedLast /\ originalPdfBytes # None /\ SelectionHeld
       => status' = StNoImage /\ tasks' = tasks]_vars

\* the asset that loading the given file alone leaves behind
AssetOf(f) ==
  [raw |-> f,
   image |-> IF IsImageName(f) /\ BrowserDecodes(f) THEN f ELSE None,
   isImage |-> IsImageName(f) /\ BrowserDecodes(f)]

\* C7: after overlapping signature loads have all completed, the asset held is
\* the one of the file picked last.
C7_LastSignatureLoadWins ==
  NoneInFlight("sig") /\ sigInputFile # None =>
    [raw |-> signatureFileRaw, image |-> signatureImage, isImage |-> signatureIsImage]
      = AssetOf(sigInputFile)

\* a step of applySignatureAndDownload: its start or one of its continuations
ApplyStep ==
  \/ ApplyStart
  \/ \E i \in InFlight : ApplyLoaded(i)
  \/ \E i \in InFlight : ApplyEmbedJpg(i)
  \/ \E i \in InFlight : ApplyEmbedPng(i)
  \/ \E i \in InFlight : ApplySaved(i)

\* C8: no step of apply changes the document bytes, the selection, the
\* signature asset or the current page, whatever its outcome; and a download
\* starts only in the step that ends a successful composition.
C8_ApplyFrame ==
  [][/\ ApplyStep => UNCHANGED <<originalPdfBytes, dragStart, dragRect, selectedPageForSig,
                                 signatureImage, signatureFileRaw, signatureIsImage,
                                 currentPageNum>>
     /\ download' # NoDownload =>
          /\ status' = StApplied
          /\ \E i \in InFlight : i.kind = "apply" /\ i.pc = "save" /\ tasks' = tasks (-) SetToBag({i})
    ]_vars

\* a download has just started and everything apply needs is still held
C8_Witness ==
  /\ download # NoDownload
  /\ originalPdfBytes = download.doc
  /\ SelectionHeld
  /\ signatureIsImage
  /\ signatureFileRaw = download.img

\* C9: when a document load completes, page 1 is current and no selection is held.
C9_LoadEndsOnFirstPage ==
  [][(\E i \in InFlight : i.kind = "load" /\ RenderDone(i))
       => currentPageNum' = 1 /\ dragRect' = NoRect /\ selectedPageForSig' = NoPage]_vars

\* C10: a document load that has ended, in failure too, has replaced the
\* status 'Loading PDF...'.
C10_FailedLoadReported ==
  NoneInFlight("load") => status # StLoadingPdf

\* C11: a selection is committed against the page shown on the canvas: when
\* the mouse button is released over a displayed page and the selection is
\* kept, selectedPageForSig is the page the canvas shows at that moment.
C11_CommittedOnDisplayedPage ==
  [][MouseUpOverlay /\ status' = StSelectionSet /\ dragRect' # NoRect /\ canvas # NoCanvas
       => selectedPageForSig' = canvas.page]_vars

\* apply returned at a check: nothing was started and nothing is downloaded
ApplyRefused == tasks' = tasks /\ download' = NoDownload

\* C12: apply invoked with no document bytes held ends with 'No PDF loaded';
\* invoked with document bytes but no selection rectangle held it ends with
\* 'No selection made'; in both cases nothing is loaded, embedded or downloaded.
C12_ApplyPreconditions ==
  [][ApplyStart =>
       /\ originalPdfBytes = None => status' = StNoPdf /\ ApplyRefused
       /\ originalPdfBytes # None /\ dragRect = NoRect
            => status' = StNoSelection /\ ApplyRefused]_vars

\* C12 as stated: 'No selection made' whenever no rectangle is held, whether
\* or not document bytes are held
C12_AsStated ==
  [][ApplyStart =>
       /\ originalPdfBytes = None => status' = StNoPdf /\ ApplyRefused
       /\ dragRect = NoRect => status' = StNoSelection /\ ApplyRefused]_vars

\* apply has just been refused for the missing selection alone: the document
\* and a decoded signature image are held
C12_Witness ==
  /\ status = StNoSelection
  /\ originalPdfBytes # None
  /\ dragRect = NoRect
  /\ signatureIsImage

\* a step in which resetSelection runs: a document is picked, or the render
\* started by a document load or by a page button completes
Invalidation ==
  \/ \E f \in PdfFiles : LoadPdfStart(f)
  \/ \E i \in InFlight : i.kind \in {"load", "nav"} /\ RenderDone(i)

\* C13: resetSelection leaves the selection tracker idle: no drag in progress
\* and no start point, rectangle or page held, also when it runs during a drag.
C13_InvalidateGoesIdle ==
  [][Invalidation =>
       /\ ~isDragging'
       /\ dragStart' = NoPoint
       /\ dragRect' = NoRect
       /\ selectedPageForSig' = NoPage]_vars

\* C14: with a document loaded the current page is one of its pages, and every
\* renderPage in flight was called with a page of the document it was called on.
C14_PageInRange ==
  /\ pdfDoc # None =>
       /\ totalPages = NumPages(pdfDoc)
       /\ 1 <= currentPageNum
       /\ currentPageNum <= totalPages
  /\ \A t \in InFlight : t.pc = "getPage" => t.page \in 1..NumPages(t.file)

\* a shorter document became current while a page button's render of the last
\* page of the longer one was still in flight
C14_Witness ==
  /\ pdfDoc = "b.pdf"
  /\ currentPageNum = 1
  /\ \E t \in InFlight : t.kind = "nav" /\ t.file = "a.pdf" /\ t.page = NumPages("a.pdf")

\* the axis-aligned bounding box of two points
BoundingBox(a, b) ==
  [x |-> Min(a.x, b.x), y |-> Min(a.y, b.y), w |-> Abs(a.x - b.x), h |-> Abs(a.y - b.y)]

PngName(f) == f # None /\ toLowerCase(FileSuffix(f)) = "png"

\* C16: the first embedding attempted is PNG when the name of the asset's file
\* ends in .png and JPEG otherwise; PNG is attempted after JPEG only when the
\* JPEG attempt failed; and a failed last attempt ends apply without a download.
C16_EmbeddingPolicy ==
  [][\A i \in InFlight :
       /\ ApplyLoaded(i) /\ status' # StApplyFailed =>
            \E t \in BagToSet(tasks') :
              /\ t.kind = "apply"
              /\ t.img = signatureFileRaw
              /\ t.pc = IF PngName(t.img) THEN "embedPng" ELSE "embedJpg"
       /\ ApplyEmbedJpg(i) =>
            \/ FileContent(i.img) = "jpeg" /\ \A t \in BagToSet(tasks') : t.pc # "embedPng"
            \/ FileContent(i.img) # "jpeg" /\ \E t \in BagToSet(tasks') : t.pc = "embedPng"
       /\ ApplyEmbedPng(i) /\ FileContent(i.img) # "png" =>
            status' = StApplyFailed /\ download' = NoDownload /\ tasks' = tasks (-) SetToBag({i})
    ]_vars

\* C17: with no document load in flight and a document decoded, the bytes kept
\* for composition are the ones of the document that is rendered and counted.
C17_BytesMatchDocument ==
  NoneInFlight("load") /\ pdfDoc # None =>
    originalPdfBytes = pdfDoc /\ totalPages = NumPages(pdfDoc)

\* C18: signatureIsImage means a decoded image is held and signatureFileRaw
\* holds the bytes of the file that image was decoded from.
C18_ImageFlagMeansImageBytes ==
  signatureIsImage => signatureImage # None /\ signatureFileRaw = signatureImage

\* C19: during a drag the start point and the rectangle are both present.
C19_DraggingHasStartAndRect ==
  isDragging => dragStart # NoPoint /\ dragRect # NoRect

\* C20: when apply passes its checks, the page of the selection is a page of
\* the document whose bytes are held.
C20_SelectedPageInDocument ==
  [][ApplyStart /\ status' = StApplying /\ ValidPdf(originalPdfBytes)
       => selectedPageForSig \in 1..NumPages(originalPdfBytes)]_vars

\* C21: once every renderPage has completed, a page that is shown on the
\* canvas, and the page named in pageIndicator, is the current page.
C21_DisplayedPageIsCurrent ==
  tasks = EmptyBag /\ pdfDoc # None /\ canvas # NoCanvas =>
    canvas.page = currentPageNum /\ pageIndicator.page = currentPageNum
====
